---- MODULE Spec2Model ----
(***************************************************************************)
(* dumble: build-task matrix expansion from package.json / tsconfig.json,  *)
(* the esbuild resolution plugin installed in every task, and the dispatch *)
(* of the tasks.  Paths are sequences of segments; a file is a record      *)
(* [dir, name, ext] whose string form is dir/name + ext.                   *)
(***************************************************************************)
EXTENDS Integers, Sequences, FiniteSets, TLC

\* ------------------------------------------------------------------------
\* Bounds
\* ------------------------------------------------------------------------

\* largest number of (declaration, matched source file) pairs a manifest of
\* the model expands to
MaxEntries == 3

\* largest number of such pairs a manifest that builds every component for
\* both platforms expands to
MaxPlatformEntries == 4

\* largest number of errors one failed build reports
MaxErrors == 255

\* process.exit(code): the exit status of a process is code modulo 2^8
ExitWidth == 256

\* ------------------------------------------------------------------------
\* Paths
\* ------------------------------------------------------------------------

Cwd == <<"pkg">>

NoPlatform == "undefined"

\* file names that end in '.d' (so that name + '.ts' matches /\.d\.ts$/)
DtsNames == {"index.d", "foo.d"}

\* names whose first character is '.'
StartsWithDot(s) == s \in {".", "..", ".internal"}

File(dir, name, ext) == [dir |-> dir, name |-> name, ext |-> ext]

\* path.normalize on segments: '.' dropped, 'x/..' collapsed
RECURSIVE NormalizeOnto(_, _)
NormalizeOnto(acc, segs) ==
  IF segs = <<>> THEN acc
  ELSE IF Head(segs) = "." THEN NormalizeOnto(acc, Tail(segs))
  ELSE IF Head(segs) = ".." /\ acc # <<>> /\ acc[Len(acc)] # ".."
       THEN NormalizeOnto(SubSeq(acc, 1, Len(acc) - 1), Tail(segs))
  ELSE NormalizeOnto(Append(acc, Head(segs)), Tail(segs))

Normalize(segs) == NormalizeOnto(<<>>, segs)

JoinDirs(a, b) == Normalize(a \o b)

\* path.join of a prefix and a subpath key; path.join returns '.' for an
\* empty result
JoinPrefix(prefix, key) ==
  LET r == Normalize(prefix \o key) IN IF r = <<>> THEN <<".">> ELSE r

\* path.relative(from, to) on directories
RECURSIVE RelativeDirs(_, _)
RelativeDirs(from, to) ==
  IF from # <<>> /\ to # <<>> /\ Head(from) = Head(to)
  THEN RelativeDirs(Tail(from), Tail(to))
  ELSE [i \in 1..Len(from) |-> ".."] \o to

\* path.relative(fromDir, toFile): a relative path string, written with the
\* host's separator
Relative(hostSep, fromDir, toFile) ==
  [sep |-> hostSep, segs |-> RelativeDirs(fromDir, toFile.dir),
   name |-> toFile.name, ext |-> toFile.ext]

\* str.startsWith('.') on a relative path string
PathStartsWithDot(p) ==
  IF p.segs # <<>> THEN StartsWithDot(p.segs[1]) ELSE StartsWithDot(p.name)

\* str.startsWith(prefix + '/') on a path string
IsPrefixDir(prefix, dir) ==
  /\ Len(dir) >= Len(prefix)
  /\ SubSeq(dir, 1, Len(prefix)) = prefix

\* ------------------------------------------------------------------------
\* Manifest and configuration model
\* ------------------------------------------------------------------------

DependencyType == <<"dependencies", "devDependencies", "peerDependencies", "optionalDependencies">>

\* a pattern string: dir/name + ext, with an optional leading './'
Pat(dir, name, ext) == [dir |-> dir, name |-> name, ext |-> ext]

\* undefined, or the empty string
NoPattern == Pat(<<>>, "", "")

Leaf(p) == [kind |-> "leaf", pattern |-> p]
Map(keys, vals) == [kind |-> "map", keys |-> keys, vals |-> vals]
NoExports == [kind |-> "none"]

\* a key of an export mapping
Cond(k) == [sub |-> FALSE, name |-> k, segs |-> <<>>]
Subpath(segs) == [sub |-> TRUE, name |-> ".", segs |-> segs]

\* the build preset of dumble(): platform 'node', format from manifest.type
BasePreset(manifest) ==
  [platform |-> "node", format |-> IF manifest.type = "module" THEN "esm" ELSE "cjs"]

\* String(null), as interpolated into the declaration-only slot
NullPrefix == <<"null">>

\* one call addExport(pattern, preset, prefix, isBinary)
Call(pattern, preset, prefix, isBinary) ==
  [pattern |-> pattern, preset |-> preset, prefix |-> prefix, isBinary |-> isBinary]

\* a descent in which 'require' and 'import' leave the format alone
KeyPresetNoFormat(key, preset) ==
  IF key.sub THEN preset
  ELSE IF key.name \in {"browser", "node"} THEN [preset EXCEPT !.platform = key.name]
  ELSE IF key.name \in {"types", "typings"} THEN [preset EXCEPT !.platform = NoPlatform]
  ELSE preset

\* the preset and prefix addConditionalExport passes down for one key
KeyPreset(key, preset) ==
  IF key.sub THEN preset
  ELSE IF key.name = "require" THEN [preset EXCEPT !.format = "cjs"]
  ELSE IF key.name = "import" THEN [preset EXCEPT !.format = "esm"]
  ELSE IF key.name \in {"browser", "node"} THEN [preset EXCEPT !.platform = key.name]
  ELSE IF key.name \in {"types", "typings"} THEN [preset EXCEPT !.platform = NoPlatform]
  ELSE preset

KeyPrefix(key, prefix) ==
  IF key.sub THEN JoinPrefix(prefix, key.segs) ELSE prefix

\* addConditionalExport: the addExport calls it makes, in call order
RECURSIVE addConditionalExport(_, _, _)
RECURSIVE addConditionalKeys(_, _, _, _)
addConditionalExport(pattern, preset, prefix) ==
  IF pattern.kind = "leaf" THEN <<Call(pattern.pattern, preset, prefix, FALSE)>>
  ELSE IF pattern.kind = "map" THEN addConditionalKeys(pattern, preset, prefix, 1)
  ELSE <<>>

\* a descent that stops after the first key of a mapping
addConditionalFirstKey(pattern, preset, prefix, i) ==
  IF i > 1 \/ i > Len(pattern.keys) THEN <<>>
  ELSE addConditionalExport(pattern.vals[i],
                            KeyPreset(pattern.keys[i], preset),
                            KeyPrefix(pattern.keys[i], prefix))

\* a descent whose overrides stay in force for the keys that follow
RECURSIVE addConditionalKeysShared(_, _, _, _)
addConditionalKeysShared(pattern, preset, prefix, i) ==
  IF i > Len(pattern.keys) THEN <<>>
  ELSE addConditionalExport(pattern.vals[i],
                            KeyPreset(pattern.keys[i], preset),
                            KeyPrefix(pattern.keys[i], prefix))
       \o addConditionalKeysShared(pattern, KeyPreset(pattern.keys[i], preset),
                                   KeyPrefix(pattern.keys[i], prefix), i + 1)

addConditionalKeys(pattern, preset, prefix, i) ==
  IF i > Len(pattern.keys) THEN <<>>
  ELSE addConditionalExport(pattern.vals[i],
                            KeyPreset(pattern.keys[i], preset),
                            KeyPrefix(pattern.keys[i], prefix))
       \o addConditionalKeys(pattern, preset, prefix, i + 1)

\* the bin field: a string, or a mapping of command names to strings
BinCalls(bin, preset) ==
  IF bin.kind = "leaf" THEN <<Call(bin.pattern, preset, NullPrefix, TRUE)>>
  ELSE IF bin.kind = "map"
  THEN [i \in 1..Len(bin.vals) |-> Call(bin.vals[i].pattern, preset, NullPrefix, TRUE)]
  ELSE <<>>

\* every addExport call of dumble(), in the order the calls are made
ExportCalls(manifest) ==
  LET preset == BasePreset(manifest) IN
    <<Call(manifest.main, preset, <<>>, FALSE)>>
    \o <<Call(manifest.module, [preset EXCEPT !.format = "esm"], <<>>, FALSE)>>
    \o addConditionalExport(manifest.exports, preset, <<>>)
    \o (IF manifest.exports.kind = "none"
        THEN <<Call(Pat(<<>>, "package", ".json"), preset, NullPrefix, FALSE)>> ELSE <<>>)
    \o BinCalls(manifest.bin, preset)

\* pattern.startsWith('./') ? pattern.slice(2) : pattern
StripDot(pattern) ==
  IF pattern.dir # <<>> /\ pattern.dir[1] = "."
  THEN [pattern EXCEPT !.dir = Tail(pattern.dir)] ELSE pattern

\* !pattern
IsEmptyPattern(pattern) == pattern = NoPattern

\* ------------------------------------------------------------------------
\* Filesystem and pattern expansion
\* ------------------------------------------------------------------------

\* the part of `dir` below `prefix`
Below(prefix, dir) == SubSeq(dir, Len(prefix) + 1, Len(dir))

\* globby(pattern, { cwd: base }) over the files `files`: the matches, as
\* paths relative to base.  A name without '*' matches itself in the
\* pattern's directory; '*' is replaced by '**' and matches any name below
\* the pattern's directory that is not behind a dot segment; a suffix after
\* the '*' ('*.d') must be the suffix of the name.
GlobMatches(files, base, pattern, exts) ==
  LET under == {f \in files : IsPrefixDir(base, f.dir)}
      rel(f) == File(Below(base, f.dir), f.name, f.ext)
      hit(t) ==
        /\ t.ext \in exts
        /\ IF pattern.name = "*"
           THEN /\ IsPrefixDir(pattern.dir, t.dir)
                /\ \A k \in 1..Len(Below(pattern.dir, t.dir)) :
                      ~StartsWithDot(Below(pattern.dir, t.dir)[k])
                /\ ~StartsWithDot(t.name)
           ELSE IF pattern.name = "*.d"
           THEN /\ IsPrefixDir(pattern.dir, t.dir)
                /\ \A k \in 1..Len(Below(pattern.dir, t.dir)) :
                      ~StartsWithDot(Below(pattern.dir, t.dir)[k])
                /\ t.name \in DtsNames
           ELSE t.dir = pattern.dir /\ t.name = pattern.name
  IN {t \in {rel(f) : f \in under} : hit(t)}

\* the orders in which globby may list a set of matches
Orders(S) ==
  {o \in [1..Cardinality(S) -> S] : \A i, j \in 1..Cardinality(S) : o[i] = o[j] => i = j}

SourceExts == {".ts", ".tsx"}

\* resolvePattern: is the pattern rooted under outDir
IsOutPattern(tsconfig, pattern) == IsPrefixDir(tsconfig.outDir, pattern.dir)

\* resolvePattern, first branch: the files registered as passthrough, the
\* targets t for which relative(rootDir, t), written with the host's
\* separator, starts with '../'
PassthroughFiles(tsconfig, sep, files, pattern) ==
  LET targets == GlobMatches(files, <<>>, pattern, {pattern.ext})
      outside(t) ==
        LET r == Relative(sep, tsconfig.rootDir, t)
        IN r.segs # <<>> /\ r.segs[1] = ".." /\ r.sep = "/"
  IN {File(JoinDirs(Cwd, t.dir), t.name, t.ext) : t \in {u \in targets : outside(u)}}

\* resolvePattern, second branch: the source files matched below rootDir
SourceMatches(tsconfig, files, pattern) ==
  GlobMatches(files, tsconfig.rootDir,
              Pat(Below(tsconfig.outDir, pattern.dir), pattern.name, pattern.ext),
              SourceExts)

\* exports[file][slot] = value, creating exports[file] when it is missing
SetSlot(registry, file, slot, value) ==
  IF file \in DOMAIN registry
  THEN [registry EXCEPT ![file] = (slot :> value) @@ @]
  ELSE registry @@ (file :> (slot :> value))

HasSlot(registry, file, slot) ==
  file \in DOMAIN registry /\ slot \in DOMAIN registry[file]

\* a preset that ignores the output extension
ExtFormatKeep(outExt, preset) == preset

\* the format addExport derives from the output extension
ExtFormat(outExt, preset) ==
  IF outExt = ".cjs" THEN [preset EXCEPT !.format = "cjs"]
  ELSE IF outExt = ".mjs" THEN [preset EXCEPT !.format = "esm"]
  ELSE preset

\* the output file of a task: resolve(outdir, entry + outExtension['.js'])
TaskOutFile(task) == File(JoinDirs(task.outdir, task.entry.dir), task.entry.name, task.outExt)

\* a task whose cleared platform falls back to 'node'
BuildTaskNodeDefault(cwd, tsconfig, target, outExt, preset, call) ==
  [outdir   |-> JoinDirs(cwd, tsconfig.outDir),
   entry    |-> [dir |-> target.dir, name |-> target.name],
   srcFile  |-> File(JoinDirs(JoinDirs(cwd, tsconfig.rootDir), target.dir), target.name, target.ext),
   outExt   |-> outExt,
   format   |-> preset.format,
   platform |-> IF preset.platform = NoPlatform THEN "node" ELSE preset.platform,
   call     |-> call]

\* one element of the matrix; `call` is the position of the addExport call
\* that pushed it (a history field, not read by the program)
BuildTask(cwd, tsconfig, target, outExt, preset, call) ==
  [outdir   |-> JoinDirs(cwd, tsconfig.outDir),
   entry    |-> [dir |-> target.dir, name |-> target.name],
   srcFile  |-> File(JoinDirs(JoinDirs(cwd, tsconfig.rootDir), target.dir), target.name, target.ext),
   outExt   |-> outExt,
   format   |-> preset.format,
   platform |-> preset.platform,
   call     |-> call]

\* a dedup test that never finds the output file
AlreadyProducedNever(outFiles, outFile) == FALSE

\* outFiles.has(outFile)
AlreadyProduced(outFiles, outFile) == outFile \in outFiles

\* the loop of addExport over the targets, from position i on; st holds
\* matrix, exports, outFiles and binaries
RECURSIVE addExportLoop(_, _, _, _, _, _, _, _, _)
addExportLoop(manifest, tsconfig, call, idx, outExt, preset, targets, i, st) ==
  IF i > Len(targets) THEN st
  ELSE
    LET task == BuildTask(Cwd, tsconfig, targets[i], outExt, preset, idx)
        srcFile == task.srcFile
        outFile == TaskOutFile(task)
        st1 == IF call.isBinary
               THEN [st EXCEPT !.binaries = Append(@, srcFile)] ELSE st
    IN IF AlreadyProduced(st1.outFiles, outFile) THEN st1
       ELSE addExportLoop(manifest, tsconfig, call, idx, outExt, preset, targets, i + 1,
              [st1 EXCEPT
                 !.outFiles = @ \cup {outFile},
                 !.exports  = IF preset.platform = NoPlatform
                              THEN SetSlot(@, srcFile, "types", [pkg |-> manifest.name, prefix |-> call.prefix])
                              ELSE SetSlot(@, srcFile, preset.platform, outFile),
                 !.matrix   = Append(@, task)])

\* ------------------------------------------------------------------------
\* Inputs of the model
\* ------------------------------------------------------------------------

Lib == <<".", "lib">>

IndexJs   == Pat(Lib, "index", ".js")
IndexCjs  == Pat(<<"lib">>, "index", ".cjs")
IndexMjs  == Pat(Lib, "index", ".mjs")
IndexDts  == Pat(Lib, "index.d", ".ts")
CompJs    == Pat(Lib \o <<"components">>, "*", ".js")
CompMjs   == Pat(Lib \o <<"components">>, "*", ".mjs")
CliJs     == Pat(Lib, "cli", ".js")
AppJs     == Pat(Lib, "app", ".js")

\* the files of the package directory, relative to cwd
Files ==
  { File(<<>>, "package", ".json"),
    File(<<"src">>, "schema", ".json"),
    File(<<"src">>, "index", ".ts"),
    File(<<"src">>, "index.d", ".ts"),
    File(<<"src">>, "foo.d", ".ts"),
    File(<<"src">>, "cli", ".ts"),
    File(<<"src">>, "app", ".tsx"),
    File(<<"src", "components">>, "foo", ".ts"),
    File(<<"src", "components">>, "bar", ".ts"),
    File(<<"src", ".internal">>, "util", ".ts") }

ExportsFields ==
  { NoExports,
    Leaf(IndexJs),
    Map(<<Cond("require"), Cond("import")>>, <<Leaf(IndexCjs), Leaf(IndexMjs)>>),
    Map(<<Cond("node"), Cond("browser")>>, <<Leaf(CompMjs), Leaf(CompJs)>>),
    Map(<<Cond("types"), Cond("default")>>, <<Leaf(IndexDts), Leaf(IndexJs)>>),
    Map(<<Subpath(<<>>), Subpath(<<"*">>)>>,
        <<Map(<<Cond("types")>>, <<Leaf(IndexDts)>>), Map(<<Cond("typings")>>, <<Leaf(Pat(Lib, "*.d", ".ts"))>>)>>),
    Map(<<Subpath(<<"components", "foo">>), Subpath(<<"components", "*">>)>>,
        <<Map(<<Cond("browser")>>, <<Leaf(Pat(Lib \o <<"components">>, "foo", ".js"))>>), Leaf(CompJs)>>),
    Map(<<Subpath(<<>>), Subpath(<<"internal">>), Subpath(<<"package.json">>)>>,
        <<Leaf(IndexJs), Leaf(Pat(Lib \o <<".internal">>, "util", ".js")), Leaf(Pat(<<".">>, "*", ".json"))>>) }

MainFields   == {NoPattern, IndexJs, IndexCjs}
ModuleFields == {NoPattern, IndexMjs}
BinFields    == {NoExports, Leaf(CliJs), Map(<<Cond("a"), Cond("b")>>, <<Leaf(CliJs), Leaf(CliJs)>>)}
TypeFields   == {"module", "commonjs"}

\* package names a manifest declares, and the version strings it gives them
Foo == <<"foo">>

\* the dependency mappings in which only `foo` is declared, under the kinds
\* of `kinds` with any version string, and @s/bar is a peer dependency
DepsOver(kinds) ==
  { [k \in {DependencyType[i] : i \in 1..4} |->
       IF k \in kinds THEN (Foo :> v[k])
       ELSE IF k = "peerDependencies" THEN (<<"@s", "bar">> :> "1.0") ELSE [n \in {} |-> ""]]
    : v \in [kinds -> {"", "1.0"}] }

AllDeps == UNION {DepsOver(kinds) : kinds \in SUBSET {DependencyType[i] : i \in 1..4}}

Manifest(main, module, exports, bin, type, deps) ==
  [name |-> <<"pkg">>, type |-> type, main |-> main, module |-> module,
   exports |-> exports, bin |-> bin, deps |-> deps]

\* the addExport calls that pass `if (!pattern) return`
LiveCalls(manifest) ==
  {i \in 1..Len(ExportCalls(manifest)) : ~IsEmptyPattern(ExportCalls(manifest)[i].pattern)}

TsConfigs ==
  { [rootDir |-> <<"src">>, outDir |-> <<"lib">>, noEmit |-> n, emitDeclarationOnly |-> e]
      : n \in BOOLEAN, e \in BOOLEAN }

\* a configuration that always has something to build
NothingToBuildNever(cfg) == FALSE

\* !noEmit && !emitDeclarationOnly
NothingToBuild(cfg) == ~cfg.noEmit /\ ~cfg.emitDeclarationOnly

DefaultTsConfig ==
  [rootDir |-> <<"src">>, outDir |-> <<"lib">>, noEmit |-> FALSE, emitDeclarationOnly |-> TRUE]

\* the number of (call, match) pairs the calls of a manifest expand to
RECURSIVE EntryCount(_, _)
EntryCount(calls, i) ==
  IF i > Len(calls) THEN 0
  ELSE (IF IsEmptyPattern(calls[i].pattern) \/ ~IsOutPattern(DefaultTsConfig, StripDot(calls[i].pattern))
        THEN 0
        ELSE Cardinality(SourceMatches(DefaultTsConfig, Files, StripDot(calls[i].pattern))))
       + EntryCount(calls, i + 1)

ManifestsWith(mains, modules, exportsSet, bins, types, depsSet) ==
  { m \in { Manifest(main, module, exp, bin, type, deps) :
              main \in mains, module \in modules, exp \in exportsSet,
              bin \in bins, type \in types, deps \in depsSet }
      : EntryCount(ExportCalls(m), 1) <= MaxEntries }

HostSeps == {"/", "\\"}

\* ------------------------------------------------------------------------
\* State
\* ------------------------------------------------------------------------

VARIABLES
  manifest,     \* the parsed package.json
  tsconfig,     \* the parsed compilerOptions
  hostSep,      \* the path separator of the host
  pc,           \* position of dumble(): "init", "expanding", "bundling", "done"
  tasks,        \* the addExport calls pushed to `tasks`, in call order
  settledCalls, \* positions in `tasks` whose promise has resolved
  resolveCache, \* stripped pattern -> pending or resolved glob result
  microtasks,   \* addExport calls ready to resume, in resumption order
  matrix,       \* the list of BuildTasks
  exports,      \* the export registry
  outFiles,     \* the output files produced so far
  binaries,     \* the sources marked for hashbang injection
  status,       \* per task: "running", "erroring" (a hook threw), "ok", "failed", "thrown"
  lastResolve,  \* the last hook call and the decision it returned
  revision,     \* the revision of bundle() and of the exit that runs
  code,         \* `let code = 0`, the running error count of bundle()
  reported      \* the errors the engine has reported so far (history)

expandVars == <<tasks, settledCalls, resolveCache, microtasks, matrix, exports, outFiles, binaries>>
inputVars == <<manifest, tsconfig, hostSep, revision>>
exitVars == <<code, reported>>
buildVars == <<status, lastResolve, code, reported>>

EmptyRegistry == [f \in {} |-> [s \in {} |-> ""]]

Pending == [state |-> "pending"]

InitState ==
  /\ pc = "init"
  /\ tasks = <<>>
  /\ settledCalls = {}
  /\ resolveCache = [p \in {} |-> Pending]
  /\ microtasks = <<>>
  /\ matrix = <<>>
  /\ exports = EmptyRegistry
  /\ outFiles = {}
  /\ binaries = <<>>

\* ------------------------------------------------------------------------
\* dumble(): expansion
\* ------------------------------------------------------------------------

\* the synchronous part of dumble() up to `await Promise.all(tasks)`: the
\* early return, then every addExport call up to its await, which starts
\* one glob per distinct pattern
Start ==
  /\ pc = "init"
  /\ IF NothingToBuild(tsconfig)
     THEN /\ pc' = "done"
          /\ UNCHANGED expandVars
     ELSE LET calls == ExportCalls(manifest) IN
          /\ pc' = "expanding"
          /\ tasks' = calls
          /\ settledCalls' = {i \in 1..Len(calls) : IsEmptyPattern(calls[i].pattern)}
          /\ resolveCache' = [p \in {StripDot(calls[i].pattern) : i \in LiveCalls(manifest)} |-> Pending]
          /\ UNCHANGED <<microtasks, matrix, exports, outFiles, binaries>>
  /\ UNCHANGED <<inputVars, buildVars>>

\* the positions in `tasks` that await the glob of pattern p, in call order
RECURSIVE Awaiters(_, _, _)
Awaiters(calls, p, i) ==
  IF i > Len(calls) THEN <<>>
  ELSE (IF ~IsEmptyPattern(calls[i].pattern) /\ StripDot(calls[i].pattern) = p
        THEN <<i>> ELSE <<>>) \o Awaiters(calls, p, i + 1)

\* the glob of one pattern completes: resolvePattern finishes (registering
\* the passthrough files, or returning the extension and the matches) and
\* the addExport calls awaiting it become ready, in call order
GlobDone(p) ==
  /\ microtasks = <<>>
  /\ p \in DOMAIN resolveCache
  /\ resolveCache[p] = Pending
  /\ IF ~IsOutPattern(tsconfig, p)
     THEN /\ exports' = [f \in PassthroughFiles(tsconfig, hostSep, Files, p) |-> ("default" :> f)] @@ exports
          /\ resolveCache' = [resolveCache EXCEPT ![p] = [state |-> "undefined"]]
     ELSE /\ \E targets \in Orders(SourceMatches(tsconfig, Files, p)) :
               resolveCache' = [resolveCache EXCEPT
                                  ![p] = [state |-> "result", outExt |-> p.ext, targets |-> targets]]
          /\ UNCHANGED exports
  /\ microtasks' = Awaiters(tasks, p, 1)
  /\ UNCHANGED <<inputVars, buildVars, pc, tasks, settledCalls, matrix, outFiles, binaries>>

\* one addExport call resumes after its await and runs to its end
AddExportResume ==
  /\ microtasks # <<>>
  /\ LET i == Head(microtasks)
         call == tasks[i]
         result == resolveCache[StripDot(call.pattern)]
     IN /\ IF result.state = "undefined"
           THEN UNCHANGED <<matrix, exports, outFiles, binaries>>
           ELSE LET st == addExportLoop(manifest, tsconfig, call, i, result.outExt,
                                        ExtFormat(result.outExt, call.preset), result.targets, 1,
                                        [matrix |-> matrix, exports |-> exports,
                                         outFiles |-> outFiles, binaries |-> binaries])
                IN /\ matrix' = st.matrix
                   /\ exports' = st.exports
                   /\ outFiles' = st.outFiles
                   /\ binaries' = st.binaries
        /\ settledCalls' = settledCalls \cup {i}
        /\ microtasks' = Tail(microtasks)
  /\ UNCHANGED <<inputVars, buildVars, pc, tasks, resolveCache>>

\* ------------------------------------------------------------------------
\* externalPlugin: the resolution hooks of one task
\* ------------------------------------------------------------------------

NoFile == File(<<>>, "", "")
NoPath == [sep |-> "", segs |-> <<>>, name |-> "", ext |-> ""]

Null == [kind |-> "null"]
Thrown == [kind |-> "throw"]
Bundled == [kind |-> "resolved", external |-> FALSE, path |-> NoPath]
External == [kind |-> "resolved", external |-> TRUE, path |-> NoPath]
ExternalAt(path) == [kind |-> "resolved", external |-> TRUE, path |-> path]

\* a package specifier: its '/'-separated segments, and whether
\* path.isAbsolute holds of it
Specifier(abs, segs) == [abs |-> abs, segs |-> segs]

\* a host without built-in modules
isBuiltinNever(segs) == FALSE

\* node:module isBuiltin
BuiltinSpecifiers == {<<"fs">>, <<"fs", "promises">>}
isBuiltin(segs) == segs \in BuiltinSpecifiers

\* the package name of a specifier
PackageName(segs) ==
  IF segs[1] \in {"@s"}
  THEN SubSeq(segs, 1, IF Len(segs) < 2 THEN Len(segs) ELSE 2)
  ELSE <<segs[1]>>

\* DependencyType.filter((type) => manifest[type]?.[name])
DeclaredTypes(m, name) ==
  {DependencyType[i] : i \in {j \in 1..Len(DependencyType) :
      /\ name \in DOMAIN m.deps[DependencyType[j]]
      /\ m.deps[DependencyType[j]][name] # ""}}

\* a classifier that keeps devDependencies external in require-style tasks
onResolvePackageByFormat(data, options, args) ==
  IF args.abs THEN Null
  ELSE IF isBuiltin(args.segs) THEN External
  ELSE LET name == PackageName(args.segs) IN
    IF name = data.manifest.name THEN External
    ELSE LET types == DeclaredTypes(data.manifest, name) IN
      IF types = {} THEN Thrown
      ELSE IF types \ {"devDependencies"} # {} \/ options.format = "cjs" THEN External ELSE Bundled

\* build.onResolve({ filter: /^[@\w].+$/ }) of the task with options
\* `options`, on the specifier args
onResolvePackage(data, options, args) ==
  IF args.abs THEN Null
  ELSE IF isBuiltin(args.segs) THEN External
  ELSE LET name == PackageName(args.segs) IN
    IF name = data.manifest.name THEN External
    ELSE LET types == DeclaredTypes(data.manifest, name) IN
      IF types = {} THEN Thrown
      ELSE IF types \ {"devDependencies"} # {} THEN External ELSE Bundled

\* extensions that end in 'js', and ext.replace(/js$/, 'ts')
JsExts == {".js", ".mjs", ".cjs"}
TsOfJs(ext) == IF ext = ".js" THEN ".ts" ELSE IF ext = ".mjs" THEN ".mts" ELSE ".cts"

\* registry[file][slot], or undefined
Slot(registry, file, slot) ==
  IF HasSlot(registry, file, slot) THEN registry[file][slot] ELSE NoFile

\* an import seen by the relative hook: the specifier args.path (a relative
\* path), args.resolveDir, and the file build.resolve finds for it (NoFile
\* when the resolution fails)
Import(path, resolveDir, resolved) ==
  [path |-> path, resolveDir |-> resolveDir, resolved |-> resolved]

\* relpath.replace(/\\/g, '/')
ForwardSlashes(relpath) == [relpath EXCEPT !.sep = "/"]

\* if (!relpath.startsWith('.')) relpath = './' + relpath
ForceRelative(relpath) ==
  IF PathStartsWithDot(relpath) THEN relpath
  ELSE [relpath EXCEPT !.segs = <<".">> \o @]

\* a lookup that ignores the platform of the task
TargetOutFileNode(registry, path, platform) ==
  IF HasSlot(registry, path, "node") THEN registry[path]["node"]
  ELSE Slot(registry, path, "default")

\* exports[path][platform!] || exports[path].default
TargetOutFile(registry, path, platform) ==
  IF HasSlot(registry, path, platform) THEN registry[path][platform]
  ELSE Slot(registry, path, "default")

\* a test that forgets the task's own entry point
IsBundledAbsent(registry, currentEntry, path) == path \notin DOMAIN registry

\* currentEntry === path || !exports[path]
IsBundled(registry, currentEntry, path) ==
  currentEntry = path \/ path \notin DOMAIN registry

\* a relative hook that rewrites the path in every format
onResolveRelativeAnyFormat(data, options, sep, args) ==
  LET path == args.resolved
      currentEntry == options.srcFile
      platform == options.platform
      ext == args.path.ext
      reflected == File(JoinDirs(args.resolveDir, args.path.dir),
                        args.path.name \o ".d", TsOfJs(ext))
  IN
  IF path = NoFile /\ ext \in JsExts /\ reflected \in DOMAIN data.exports
  THEN IF HasSlot(data.exports, reflected, "types")
       THEN ExternalAt(data.exports[reflected]["types"]) ELSE External
  ELSE IF IsBundled(data.exports, currentEntry, path) THEN Null
  ELSE LET outFile == TargetOutFile(data.exports, path, platform)
       IN IF outFile = NoFile THEN Null
          ELSE IF ~HasSlot(data.exports, currentEntry, platform) THEN Thrown
          ELSE LET outDir == data.exports[currentEntry][platform].dir
               IN ExternalAt(ForceRelative(ForwardSlashes(Relative(sep, outDir, outFile))))

\* build.onResolve({ filter: /^\./, namespace: 'file' }) of the task with
\* options `options`
onResolveRelative(data, options, sep, args) ==
  LET path == args.resolved
      currentEntry == options.srcFile
      platform == options.platform
      ext == args.path.ext
      reflected == File(JoinDirs(args.resolveDir, args.path.dir),
                        args.path.name \o ".d", TsOfJs(ext))
  IN
  IF path = NoFile /\ ext \in JsExts /\ reflected \in DOMAIN data.exports
  THEN IF HasSlot(data.exports, reflected, "types")
       THEN ExternalAt(data.exports[reflected]["types"]) ELSE External
  ELSE IF IsBundled(data.exports, currentEntry, path) THEN Null
  ELSE IF options.format = "cjs" THEN External
  ELSE LET outFile == TargetOutFile(data.exports, path, platform)
       IN IF outFile = NoFile THEN Null
          ELSE IF ~HasSlot(data.exports, currentEntry, platform) THEN Thrown
          ELSE LET outDir == data.exports[currentEntry][platform].dir
               IN ExternalAt(ForceRelative(ForwardSlashes(Relative(sep, outDir, outFile))))

\* build.onLoad({ filter: /\.d\.ts$/ }): the file is copied, not parsed
IsDeclarationFile(file) == file.name \in DtsNames /\ file.ext = ".ts"

\* ------------------------------------------------------------------------
\* The load hooks of one task
\* ------------------------------------------------------------------------

\* the line hashbangPlugin prepends
NodeHashbang == "#!/usr/bin/env node"

\* contents.startsWith('#!'), on contents given as their lines
StartsWithHashbang(contents) == contents # <<>> /\ contents[1] \in {NodeHashbang, "#!/usr/bin/env deno"}

\* the load hooks in plugin order: the copy hook of externalPlugin
\* (filter /\.d\.ts$/), then the hook of hashbangPlugin (filter /\.ts$/);
\* Null when no hook takes the file
onLoad(designated, path, contents) ==
  IF IsDeclarationFile(path)
  THEN [kind |-> "loaded", loader |-> "copy", contents |-> contents]
  ELSE IF path.ext # ".ts" THEN Null
  ELSE IF \A k \in DOMAIN designated : designated[k] # path THEN Null
  ELSE [kind |-> "loaded", loader |-> "ts",
        contents |-> IF StartsWithHashbang(contents) THEN contents
                     ELSE <<NodeHashbang>> \o contents]

\* ------------------------------------------------------------------------
\* dumble(): dispatch
\* ------------------------------------------------------------------------

vars == <<manifest, tsconfig, hostSep, pc, tasks, settledCalls, resolveCache, microtasks,
          matrix, exports, outFiles, binaries, status, lastResolve, revision, code, reported>>

NoResolve == [hook |-> "none"]

Data == [manifest |-> manifest, exports |-> exports]

\* specifiers the package hook is asked about
PackageSpecifiers ==
  { Specifier(FALSE, Foo), Specifier(FALSE, <<"foo", "sub">>),
    Specifier(FALSE, <<"@s", "bar", "x">>), Specifier(FALSE, <<"baz">>),
    Specifier(FALSE, <<"fs">>), Specifier(FALSE, <<"pkg", "sub">>),
    Specifier(TRUE, <<"C:", "x">>) }

SrcDir == JoinDirs(Cwd, <<"src">>)

\* the specifier a module of directory fromDir writes to import file f
ImportOf(fromDir, f) ==
  LET rel == RelativeDirs(fromDir, JoinDirs(Cwd, f.dir)) IN
    Import(Pat(IF rel # <<>> /\ rel[1] = ".." THEN rel ELSE <<".">> \o rel,
               f.name, IF f.ext \in SourceExts THEN ".js" ELSE f.ext),
           fromDir, File(JoinDirs(Cwd, f.dir), f.name, f.ext))

\* imports the relative hook is asked about: every module of the package,
\* imported from rootDir and from its own directory and resolved by
\* build.resolve, and specifiers whose resolution fails
RelativeImports ==
  { ImportOf(SrcDir, f) : f \in {g \in Files : ~IsDeclarationFile(g)} }
  \cup { ImportOf(JoinDirs(Cwd, f.dir), f)
            : f \in {g \in Files : ~IsDeclarationFile(g) /\ IsPrefixDir(<<"src">>, g.dir)} }
  \cup { Import(Pat(<<".">>, "foo", ".js"), SrcDir, NoFile),
         Import(Pat(<<".">>, "index", ".css"), SrcDir, NoFile),
         Import(Pat(<<".">>, "nope", ".js"), SrcDir, NoFile) }

\* the hook calls of a whole run
FewSpecifiers == {Specifier(FALSE, Foo), Specifier(FALSE, <<"baz">>)}
FewImports ==
  { Import(Pat(<<".">>, "index", ".js"), SrcDir, File(SrcDir, "index", ".ts")),
    Import(Pat(<<".">>, "nope", ".js"), SrcDir, NoFile) }

\* a dispatch that does not wait for the addExport calls
NoneAwaited == TRUE

\* Promise.all(tasks) has resolved
AllExpanded == settledCalls = 1..Len(tasks)

\* matrix.map(async (options) => ...): every task is handed to esbuild
Dispatch ==
  /\ pc = "expanding"
  /\ AllExpanded
  /\ pc' = "bundling"
  /\ status' = [t \in 1..Len(matrix) |-> "running"]
  /\ UNCHANGED <<inputVars, expandVars, lastResolve, exitVars>>

Running(t) == status[t] \in {"running", "erroring"}

\* esbuild parses the sources of a task, unless its entry is copied
Parses(t) == ~IsDeclarationFile(matrix[t].srcFile)

\* esbuild asks the package hook of task t; an exception of the hook becomes
\* an error of the build.  With `observed` the call and its decision are
\* kept in lastResolve until the engine takes the decision.
ResolvePackage(t, args, observed) ==
  /\ pc = "bundling"
  /\ Running(t) /\ Parses(t)
  /\ lastResolve = NoResolve
  /\ LET d == onResolvePackage(Data, matrix[t], args) IN
       /\ lastResolve' = IF observed
                         THEN [hook |-> "package", task |-> t, args |-> args, decision |-> d]
                         ELSE lastResolve
       /\ status' = IF d = Thrown THEN [status EXCEPT ![t] = "erroring"] ELSE status
  /\ UNCHANGED <<inputVars, pc, expandVars, exitVars>>

\* esbuild asks the relative hook of task t
ResolveRelative(t, args, observed) ==
  /\ pc = "bundling"
  /\ Running(t) /\ Parses(t)
  /\ lastResolve = NoResolve
  /\ LET d == onResolveRelative(Data, matrix[t], hostSep, args) IN
       /\ lastResolve' = IF observed
                         THEN [hook |-> "relative", task |-> t, args |-> args, decision |-> d]
                         ELSE lastResolve
       /\ status' = IF d = Thrown THEN [status EXCEPT ![t] = "erroring"] ELSE status
  /\ UNCHANGED <<inputVars, pc, expandVars, exitVars>>

\* esbuild loads the file `path`, whose contents are `contents`, for task t
Load(t, path, contents) ==
  /\ pc = "bundling"
  /\ Running(t)
  /\ lastResolve = NoResolve
  /\ lastResolve' = [hook |-> "load", task |-> t,
                     args |-> [path |-> path, contents |-> contents],
                     decision |-> onLoad(binaries, path, contents)]
  /\ UNCHANGED <<inputVars, pc, expandVars, status, exitVars>>

\* the engine takes the decision of an observed hook call
HookReturn ==
  /\ lastResolve # NoResolve
  /\ lastResolve' = NoResolve
  /\ UNCHANGED <<inputVars, pc, expandVars, status, exitVars>>

\* the outcomes of bundle(options) inside try/catch: build resolves, build
\* rejects with a BuildFailure (handled by bundle), or something throws
Outcomes(s) == IF s = "running" THEN {"ok", "failed", "thrown"} ELSE {"failed", "thrown"}

\* a settle whose exception escapes the task boundary and ends the run
TaskSettleUncaught(t, outcome) ==
  /\ pc = "bundling"
  /\ Running(t)
  /\ outcome \in Outcomes(status[t])
  /\ status' = [status EXCEPT ![t] = outcome]
  /\ pc' = IF outcome = "thrown" THEN "done" ELSE pc
  /\ UNCHANGED <<inputVars, expandVars, lastResolve, exitVars>>

\* the revisions of bundle(): src/unnamed/part_001 displays the errors of a
\* BuildFailure, src/src/index.ts also adds their number to `code`
Current == "part_001"
Counting == "index.ts"

\* try { await bundle(options) } catch: the build of task t settles; a
\* BuildFailure carries n >= 1 errors, the other outcomes carry none
bundle(t, outcome, n) ==
  /\ pc = "bundling"
  /\ Running(t)
  /\ outcome \in Outcomes(status[t])
  /\ (outcome = "failed") <=> (n > 0)
  /\ status' = [status EXCEPT ![t] = outcome]
  /\ reported' = reported + n
  /\ code' = IF revision = Counting THEN code + n ELSE code
  /\ UNCHANGED <<inputVars, pc, expandVars, lastResolve>>

\* a settle whose failure reports one error
TaskSettle(t, outcome) == bundle(t, outcome, IF outcome = "failed" THEN 1 ELSE 0)

AllSettled == \A t \in DOMAIN status : ~Running(t)

\* the second Promise.all resolves and dumble() returns
Finish ==
  /\ pc = "bundling"
  /\ AllSettled
  /\ pc' = "done"
  /\ UNCHANGED <<inputVars, expandVars, status, lastResolve, exitVars>>

\* the exit status of the process once dumble() has returned:
\* `if (code) process.exit(code)` in the counting revision, a normal exit
\* otherwise
ExitStatus == IF revision = Counting /\ code # 0 THEN code % ExitWidth ELSE 0

MainDeps == CHOOSE d \in DepsOver({"devDependencies"}) : d["devDependencies"][Foo] = "1.0"

AllManifests ==
  ManifestsWith(MainFields, ModuleFields, ExportsFields, BinFields, TypeFields, {MainDeps})

PlatformExports == Map(<<Cond("node"), Cond("browser")>>, <<Leaf(CompMjs), Leaf(CompJs)>>)
DualExports == Map(<<Cond("require"), Cond("import")>>, <<Leaf(IndexCjs), Leaf(IndexMjs)>>)

\* manifests combined with every configuration, separator and dependency
\* mapping
FewManifests(depsSet) ==
  ManifestsWith({NoPattern}, {NoPattern}, {DualExports}, {NoExports}, {"module"}, depsSet)

\* exports whose extensions contradict their conditions, and exports whose
\* extension leaves the format to the condition
CrossedExports == Map(<<Cond("require"), Cond("import")>>, <<Leaf(IndexMjs), Leaf(IndexCjs)>>)
GenericExports == Map(<<Cond("require"), Cond("import")>>, <<Leaf(IndexJs), Leaf(CliJs)>>)

\* manifests that declare a format by property and an extension by path
FormatManifests ==
  ManifestsWith({NoPattern}, {NoPattern, IndexCjs, IndexJs, IndexMjs},
                {NoExports, CrossedExports, GenericExports}, {NoExports}, TypeFields, {MainDeps})

\* manifests that build every component for both platforms
PlatformManifests ==
  { m \in { Manifest(NoPattern, NoPattern, PlatformExports, NoExports, type, MainDeps)
              : type \in TypeFields }
      : EntryCount(ExportCalls(m), 1) <= MaxPlatformEntries }

\* manifests that export a declaration source next to the index, under no
\* 'types' condition
ReflectionManifests ==
  ManifestsWith({NoPattern}, {NoPattern},
                {Map(<<Subpath(<<>>), Subpath(<<"foo">>)>>,
                     <<Leaf(IndexJs), Leaf(Pat(Lib, "foo.d", ".ts"))>>)},
                {NoExports}, TypeFields, {MainDeps})

\* manifests of a scoped package that declares no dependency on itself
ScopedManifests ==
  { [m EXCEPT !.name = <<"@s", "bar">>] : m \in FewManifests(DepsOver({"peerDependencies"})) }

\* manifests whose declarations include patterns outside outDir: the
\* implicit package.json, and the './*.json' leaf of an exports mapping
PassthroughManifests ==
  { m \in ManifestsWith({NoPattern, IndexJs}, {NoPattern}, ExportsFields, {NoExports},
                        {"module"}, {MainDeps})
      : \E i \in LiveCalls(m) : ~IsOutPattern(DefaultTsConfig, StripDot(ExportCalls(m)[i].pattern)) }

\* manifests that export package.json and put a parsed source below a
\* 'types' condition
ClearedPlatformManifests ==
  ManifestsWith({NoPattern}, {NoPattern},
                {Map(<<Subpath(<<>>), Subpath(<<"package.json">>)>>,
                     <<Map(<<Cond("types"), Cond("default")>>, <<Leaf(IndexJs), Leaf(CliJs)>>),
                       Leaf(Pat(<<".">>, "package", ".json"))>>)},
                {NoExports}, TypeFields, {MainDeps})

InitBuild ==
  /\ InitState
  /\ status = <<>>
  /\ lastResolve = NoResolve
  /\ code = 0
  /\ reported = 0

\* the whole run, hook calls unobserved
Init ==
  /\ InitBuild
  /\ hostSep = "/"
  /\ revision = Current
  /\ \/ manifest \in AllManifests /\ tsconfig = DefaultTsConfig
     \/ manifest \in PlatformManifests /\ tsconfig = DefaultTsConfig
     \/ manifest \in FormatManifests /\ tsconfig = DefaultTsConfig
     \/ manifest \in FewManifests({MainDeps}) /\ tsconfig \in TsConfigs
     \/ /\ manifest \in AllManifests
        /\ tsconfig = [DefaultTsConfig EXCEPT !.emitDeclarationOnly = FALSE]

Next ==
  \/ Start
  \/ \E p \in DOMAIN resolveCache : GlobDone(p)
  \/ AddExportResume
  \/ Dispatch
  \/ \E t \in DOMAIN status, args \in FewSpecifiers : ResolvePackage(t, args, FALSE)
  \/ \E t \in DOMAIN status, args \in FewImports : ResolveRelative(t, args, FALSE)
  \/ \E t \in DOMAIN status, outcome \in {"ok", "failed", "thrown"} : TaskSettle(t, outcome)
  \/ Finish

Spec == Init /\ [][Next]_vars

\* the run up to the builds, every hook call observed
InitHooks ==
  /\ InitBuild
  /\ tsconfig = DefaultTsConfig
  /\ revision = Current
  /\ \/ manifest \in AllManifests /\ hostSep = "/"
     \/ manifest \in FewManifests(AllDeps) /\ hostSep = "/"
     \/ manifest \in FewManifests({MainDeps}) /\ hostSep \in HostSeps
     \/ manifest \in PlatformManifests /\ hostSep \in HostSeps
     \/ manifest \in ReflectionManifests /\ hostSep = "/"
     \/ manifest \in ScopedManifests /\ hostSep = "/"
     \/ manifest \in PassthroughManifests /\ hostSep \in HostSeps
     \/ manifest \in ClearedPlatformManifests /\ hostSep = "/"

NextHooks ==
  \/ Start
  \/ \E p \in DOMAIN resolveCache : GlobDone(p)
  \/ AddExportResume
  \/ Dispatch
  \/ \E t \in DOMAIN status, args \in PackageSpecifiers : ResolvePackage(t, args, TRUE)
  \/ \E t \in DOMAIN status, args \in RelativeImports : ResolveRelative(t, args, TRUE)
  \/ HookReturn

SpecHooks == InitHooks /\ [][NextHooks]_vars

\* the numbers of errors a build reports
ErrorCounts == {0, 1, 2, MaxErrors}

\* the builds and the exit, in both revisions, with every error count
InitExit ==
  /\ InitBuild
  /\ tsconfig = DefaultTsConfig
  /\ hostSep = "/"
  /\ revision \in {Current, Counting}
  /\ manifest \in FewManifests({MainDeps}) \cup PlatformManifests

NextExit ==
  \/ Start
  \/ \E p \in DOMAIN resolveCache : GlobDone(p)
  \/ AddExportResume
  \/ Dispatch
  \/ \E t \in DOMAIN status, args \in FewSpecifiers : ResolvePackage(t, args, FALSE)
  \/ \E t \in DOMAIN status, outcome \in {"ok", "failed", "thrown"}, n \in ErrorCounts :
        bundle(t, outcome, n)
  \/ Finish

SpecExit == InitExit /\ [][NextExit]_vars

\* manifests that declare commands
BinManifests ==
  ManifestsWith({NoPattern, CliJs}, {NoPattern}, {NoExports, Leaf(IndexJs)},
                BinFields \cup {Leaf(AppJs), Map(<<Cond("a"), Cond("b")>>, <<Leaf(CliJs), Leaf(AppJs)>>)},
                {"module"}, {MainDeps})

\* the contents a source file may have
Contents ==
  { <<>>, <<"code">>, <<NodeHashbang, "code">>, <<"#!/usr/bin/env deno", "code">> }

\* the run up to the builds, every load observed
InitLoad ==
  /\ InitBuild
  /\ tsconfig = DefaultTsConfig
  /\ hostSep = "/"
  /\ revision = Current
  /\ manifest \in BinManifests

NextLoad ==
  \/ Start
  \/ \E p \in DOMAIN resolveCache : GlobDone(p)
  \/ AddExportResume
  \/ Dispatch
  \/ \E t \in DOMAIN status, f \in Files, contents \in Contents :
        Load(t, File(JoinDirs(Cwd, f.dir), f.name, f.ext), contents)
  \/ HookReturn

SpecLoad == InitLoad /\ [][NextLoad]_vars

\* ------------------------------------------------------------------------
\* Properties of the task matrix
\* ------------------------------------------------------------------------

Dispatched == pc \in {"bundling", "done"}

\* the addExport calls whose pattern is expanded below rootDir
SourceCalls ==
  {i \in DOMAIN tasks : /\ ~IsEmptyPattern(tasks[i].pattern)
                        /\ IsOutPattern(tsconfig, StripDot(tasks[i].pattern))}

\* the source files the pattern of call i matches, as absolute paths
CallSources(i) ==
  { File(JoinDirs(JoinDirs(Cwd, tsconfig.rootDir), t.dir), t.name, t.ext)
      : t \in SourceMatches(tsconfig, Files, StripDot(tasks[i].pattern)) }

\* the output files the pattern of call i resolves to
CallOutFiles(i) ==
  { File(JoinDirs(JoinDirs(Cwd, tsconfig.outDir), t.dir), t.name, StripDot(tasks[i].pattern).ext)
      : t \in SourceMatches(tsconfig, Files, StripDot(tasks[i].pattern)) }

\* C1: no two BuildTasks of the matrix have the same output file
UniqueOutputFiles ==
  \A i, j \in DOMAIN matrix :
     TaskOutFile(matrix[i]) = TaskOutFile(matrix[j]) => i = j

\* C1 witness: the run has ended, two declarations resolved to one output
\* file, and the matrix holds several tasks
DuplicateDeclarationsExpanded ==
  /\ pc = "done"
  /\ Len(matrix) >= 2
  /\ \E i, j \in SourceCalls : i < j /\ CallOutFiles(i) \cap CallOutFiles(j) # {}

\* C2: the task kept for an output file comes from the first declaration, in
\* call order, that resolves to that file
FirstDeclaredWins ==
  Dispatched =>
    \A t \in DOMAIN matrix : \A i \in SourceCalls :
       TaskOutFile(matrix[t]) \in CallOutFiles(i) => matrix[t].call <= i

\* C3: once the tasks are dispatched, the registry, the produced output
\* files and the binary sources are never written again
FrozenAfterDispatch ==
  [][Dispatched => /\ exports' = exports
                   /\ outFiles' = outFiles
                   /\ binaries' = binaries]_vars

\* C3 witness: tasks run against a registry filled by several globs
DispatchedWithRegistry ==
  /\ pc = "bundling"
  /\ Len(matrix) >= 2
  /\ Cardinality(DOMAIN resolveCache) >= 2
  /\ DOMAIN exports # {}
  /\ \E t \in DOMAIN status : status[t] = "ok"

\* the calls made under a 'types' or 'typings' condition, platform cleared
DeclarationCalls == {i \in SourceCalls : tasks[i].preset.platform = NoPlatform}

\* C8: no BuildTask of the matrix comes from a declaration-only branch
NoDeclarationTask ==
  \A t \in DOMAIN matrix : matrix[t].call \notin DeclarationCalls

\* C8 (amended): a declaration-only branch adds a BuildTask exactly when it
\* writes the declaration-only slot of a source file, and that task has its
\* platform cleared
DeclarationTaskPlatformCleared ==
  /\ \A t \in DOMAIN matrix :
        matrix[t].call \in DeclarationCalls =>
          /\ matrix[t].platform = NoPlatform
          /\ HasSlot(exports, matrix[t].srcFile, "types")
  /\ \A f \in DOMAIN exports :
        HasSlot(exports, f, "types") =>
          \E t \in DOMAIN matrix :
             /\ matrix[t].srcFile = f
             /\ matrix[t].platform = NoPlatform
             /\ matrix[t].call \in DeclarationCalls

\* C8 witness: a task of a declaration-only branch has been dispatched
DeclarationTaskDispatched ==
  /\ pc = "bundling"
  /\ \E t \in DOMAIN matrix : matrix[t].call \in DeclarationCalls

\* C9: after expansion every source file matched by a declaration-only
\* branch has a declaration-only slot in the registry
DeclarationSlotPopulated ==
  Dispatched =>
    \A i \in DeclarationCalls : \A f \in CallSources(i) : HasSlot(exports, f, "types")

\* C10: every task of the matrix is dispatched, a running task can settle
\* with each of its outcomes whatever its siblings did, and the run ends
\* only when every task has settled
EveryTaskSettles ==
  /\ Dispatched => DOMAIN status = DOMAIN matrix
  /\ pc = "bundling" =>
       /\ \A t \in DOMAIN status :
             Running(t) => \A o \in Outcomes(status[t]) : ENABLED TaskSettle(t, o)
       /\ AllSettled => ENABLED Finish
  /\ pc = "done" => AllSettled

\* C10 witness: the run has ended, one task threw, one failed and one
\* succeeded
MixedOutcomesCollected ==
  /\ pc = "done"
  /\ \E t1, t2, t3 \in DOMAIN status :
       status[t1] = "thrown" /\ status[t2] = "failed" /\ status[t3] = "ok"

\* ------------------------------------------------------------------------
\* Properties of the resolution hooks
\* ------------------------------------------------------------------------

\* the dependency kinds whose mapping has the package name as a key
DeclaredUnder(m, name) ==
  {DependencyType[i] : i \in {j \in 1..Len(DependencyType) : name \in DOMAIN m.deps[DependencyType[j]]}}

\* the observed call is a package-hook call that reaches the dependency rules
ClassifiesPackage ==
  /\ lastResolve.hook = "package"
  /\ ~lastResolve.args.abs
  /\ ~isBuiltin(lastResolve.args.segs)
  /\ PackageName(lastResolve.args.segs) # manifest.name

\* C4: a package declared under no kind fails, one declared only under
\* devDependencies is bundled, one declared under dependencies,
\* peerDependencies or optionalDependencies is external
ClassifiedByDeclaredKinds ==
  ClassifiesPackage =>
    LET kinds == DeclaredUnder(manifest, PackageName(lastResolve.args.segs)) IN
      lastResolve.decision =
        IF kinds = {} THEN Thrown
        ELSE IF kinds \subseteq {"devDependencies"} THEN Bundled
        ELSE External

\* C5: the decision a task returns for a specifier is the decision every
\* task of the matrix returns for it, with the registry as it is or empty
SameDecisionInEveryTask ==
  lastResolve.hook = "package" =>
    \A t \in DOMAIN matrix : \A registry \in {exports, EmptyRegistry} :
       onResolvePackage([manifest |-> manifest, exports |-> registry], matrix[t], lastResolve.args)
         = lastResolve.decision

\* C5 witness: a task was refused an unlisted package while the matrix holds
\* a task of the other format
UnlistedRefusedAmongFormats ==
  /\ lastResolve.hook = "package"
  /\ lastResolve.decision = Thrown
  /\ \E t \in DOMAIN matrix : matrix[t].format # matrix[lastResolve.task].format

\* the file a rewritten path names from the directory dir
ResolveFrom(dir, relpath) ==
  File(Normalize(dir \o relpath.segs), relpath.name, relpath.ext)

\* the observed call is a relative-hook call of task t whose import resolves
\* to the registered source of another task
CrossTaskImport ==
  /\ lastResolve.hook = "relative"
  /\ lastResolve.args.resolved # matrix[lastResolve.task].srcFile
  /\ \E t \in DOMAIN matrix : matrix[t].srcFile = lastResolve.args.resolved

Rewritten ==
  /\ lastResolve.decision.kind = "resolved"
  /\ lastResolve.decision.external
  /\ lastResolve.decision.path # NoPath

\* C6: a path rewritten for an import-style task names the target output
\* file from the directory of the task's own output file, is written with
\* forward slashes and begins with './' or '../'
RewrittenPathIsRelative ==
  (CrossTaskImport /\ matrix[lastResolve.task].format = "esm" /\ Rewritten) =>
    LET task == matrix[lastResolve.task]
        path == lastResolve.decision.path
    IN /\ path.sep = "/"
       /\ path.segs # <<>>
       /\ path.segs[1] \in {".", ".."}
       /\ ResolveFrom(TaskOutFile(task).dir, path)
            = TargetOutFile(exports, lastResolve.args.resolved, task.platform)

\* the observed call is a relative-hook call of a node or browser task that
\* imports a module registered under both platforms
BothPlatformsImport ==
  /\ CrossTaskImport
  /\ matrix[lastResolve.task].platform \in {"node", "browser"}
  /\ HasSlot(exports, lastResolve.args.resolved, "node")
  /\ HasSlot(exports, lastResolve.args.resolved, "browser")

\* C7: every task that imports a module registered under both platforms is
\* sent to the output registered under its own platform
OwnPlatformOutput ==
  BothPlatformsImport =>
    LET task == matrix[lastResolve.task] IN
      /\ Rewritten
      /\ ResolveFrom(TaskOutFile(task).dir, lastResolve.decision.path)
           = exports[lastResolve.args.resolved][task.platform]

\* C7 (amended): an import-style task is sent to the output registered under
\* its own platform, a require-style task is marked external with no
\* rewritten path, and no task is sent to the other platform's output
OwnPlatformOutputEsm ==
  BothPlatformsImport =>
    LET task == matrix[lastResolve.task]
        target == lastResolve.args.resolved
    IN /\ task.format = "esm" =>
            /\ Rewritten
            /\ ResolveFrom(TaskOutFile(task).dir, lastResolve.decision.path)
                 = exports[target][task.platform]
       /\ task.format = "cjs" => lastResolve.decision = External
       /\ Rewritten =>
            ResolveFrom(TaskOutFile(task).dir, lastResolve.decision.path)
              # exports[target][IF task.platform = "node" THEN "browser" ELSE "node"]

\* C7 witness: an import-style browser task got a rewritten path for a
\* module registered under both platforms
BrowserTaskRewritten ==
  /\ BothPlatformsImport
  /\ matrix[lastResolve.task].platform = "browser"
  /\ matrix[lastResolve.task].format = "esm"
  /\ Rewritten

\* ------------------------------------------------------------------------
\* Properties of the exit
\* ------------------------------------------------------------------------

\* C11: when the run has ended, the exit status is the number of errors the
\* engine reported over all tasks (so it is 0 exactly when there were none)
ExitStatusCountsErrors ==
  pc = "done" => ExitStatus = reported

\* C12: a run in which a task failed, by reported errors or by a caught
\* exception, ends with a nonzero exit status
FailureSurfaces ==
  (pc = "done" /\ \E t \in DOMAIN status : status[t] \in {"failed", "thrown"})
    => ExitStatus # 0

\* ------------------------------------------------------------------------
\* Properties of two runs
\* ------------------------------------------------------------------------

\* the distinct patterns of the calls from position i on, in the order of
\* their first call
RECURSIVE PatternsInCallOrder(_, _, _)
PatternsInCallOrder(calls, i, seen) ==
  IF i > Len(calls) THEN <<>>
  ELSE LET p == StripDot(calls[i].pattern) IN
       IF IsEmptyPattern(calls[i].pattern) \/ p \in seen
       THEN PatternsInCallOrder(calls, i + 1, seen)
       ELSE <<p>> \o PatternsInCallOrder(calls, i + 1, seen \cup {p})

\* the addExport calls `awaiting`, resumed one after the other on a glob
\* result that lists `targets`
RECURSIVE ResumeAll(_, _, _, _, _, _, _)
ResumeAll(m, cfg, calls, awaiting, k, targets, st) ==
  IF k > Len(awaiting) THEN st
  ELSE LET call == calls[awaiting[k]]
           outExt == StripDot(call.pattern).ext
       IN ResumeAll(m, cfg, calls, awaiting, k + 1, targets,
                    addExportLoop(m, cfg, call, awaiting[k], outExt,
                                  ExtFormat(outExt, call.preset), targets, 1, st))

\* one listing of a set of matches
ListingOf(S) == CHOOSE o \in Orders(S) : TRUE

\* the run in which the globs complete in the order of their first call:
\* the state it leaves after the patterns from position j on
RECURSIVE RunInCallOrder(_, _, _, _, _)
RunInCallOrder(m, cfg, patterns, j, st) ==
  IF j > Len(patterns) THEN st
  ELSE LET p == patterns[j] IN
       RunInCallOrder(m, cfg, patterns, j + 1,
         IF ~IsOutPattern(cfg, p)
         THEN [st EXCEPT !.exports =
                 [f \in PassthroughFiles(cfg, hostSep, Files, p) |-> ("default" :> f)] @@ @]
         ELSE ResumeAll(m, cfg, ExportCalls(m), Awaiters(ExportCalls(m), p, 1), 1,
                        ListingOf(SourceMatches(cfg, Files, p)), st))

\* what a run of dumble() on manifest m and configuration cfg produces when
\* its globs complete in call order
CallOrderRun(m, cfg) ==
  RunInCallOrder(m, cfg, PatternsInCallOrder(ExportCalls(m), 1, {}), 1,
                 [matrix |-> <<>>, exports |-> EmptyRegistry, outFiles |-> {}, binaries |-> <<>>])

\* the BuildTasks of a matrix: entry, output file, format and platform
TaskSet(mx) ==
  { [entry |-> mx[t].entry, outFile |-> TaskOutFile(mx[t]),
     format |-> mx[t].format, platform |-> mx[t].platform] : t \in DOMAIN mx }

\* every glob of the run listed its matches as ListingOf does
SameListings ==
  \A p \in DOMAIN resolveCache :
     resolveCache[p].state = "result" =>
       resolveCache[p].targets = ListingOf(SourceMatches(tsconfig, Files, p))

\* C13: a run produces the BuildTasks and the registry that the run whose
\* globs complete in call order produces on the same inputs, the globs of
\* both runs listing their matches in the same order
SameResultAsCallOrderRun ==
  (pc = "bundling" /\ SameListings) =>
    /\ TaskSet(matrix) = TaskSet(CallOrderRun(manifest, tsconfig).matrix)
    /\ exports = CallOrderRun(manifest, tsconfig).exports

\* ------------------------------------------------------------------------
\* Properties of the formats
\* ------------------------------------------------------------------------

\* the manifest declares nothing but `exports`
OnlyExports ==
  /\ IsEmptyPattern(manifest.main)
  /\ IsEmptyPattern(manifest.module)
  /\ manifest.bin = NoExports

\* the BuildTask of entry `index` written with extension outExt
IndexTask(outExt, format) ==
  [entry |-> [dir |-> <<>>, name |-> "index"],
   outFile |-> File(JoinDirs(Cwd, tsconfig.outDir), "index", outExt),
   format |-> format, platform |-> "node"]

\* C14: exports {require: <out>/index.cjs, import: <out>/index.mjs} with
\* one source file of entry index give exactly two BuildTasks, index.cjs in
\* cjs format and index.mjs in esm format
DualExportsTwoTasks ==
  (pc = "bundling" /\ OnlyExports /\ manifest.exports = DualExports) =>
    /\ Len(matrix) = 2
    /\ TaskSet(matrix) = {IndexTask(".cjs", "cjs"), IndexTask(".mjs", "esm")}

\* C14 witness: the two tasks of a dual manifest of type commonjs are being
\* built
DualExportsDispatched ==
  /\ pc = "bundling"
  /\ OnlyExports
  /\ manifest.exports = DualExports
  /\ manifest.type = "commonjs"
  /\ Len(matrix) = 2

\* for every leaf of an exports value, in the order addConditionalExport
\* visits them: the innermost 'require' or 'import' condition the leaf is
\* below, or "none"
RECURSIVE FormatCondition(_, _)
RECURSIVE FormatConditionKeys(_, _, _)
FormatCondition(pattern, under) ==
  IF pattern.kind = "leaf" THEN <<under>>
  ELSE IF pattern.kind = "map" THEN FormatConditionKeys(pattern, under, 1)
  ELSE <<>>

FormatConditionKeys(pattern, under, i) ==
  IF i > Len(pattern.keys) THEN <<>>
  ELSE FormatCondition(pattern.vals[i],
         IF ~pattern.keys[i].sub /\ pattern.keys[i].name \in {"require", "import"}
         THEN pattern.keys[i].name ELSE under)
       \o FormatConditionKeys(pattern, under, i + 1)

\* the positions in `tasks` of the calls made for the exports field
ExportsCalls == 3..(2 + Len(FormatCondition(manifest.exports, "none")))

\* the calls made for an exports leaf below the format condition `cond`
CallsUnder(cond) ==
  {i \in ExportsCalls : FormatCondition(manifest.exports, "none")[i - 2] = cond}

\* the calls made for main, for bin, and for an exports leaf below no
\* 'require' or 'import' condition
AutoDetectedCalls ==
  {i \in DOMAIN tasks : i = 1 \/ tasks[i].isBinary} \cup CallsUnder("none")

\* the README's auto-detection table
AutoDetected(outExt, type) ==
  IF outExt = ".cjs" THEN "cjs"
  ELSE IF outExt = ".mjs" THEN "esm"
  ELSE IF type = "module" THEN "esm" ELSE "cjs"

\* C15: a task declared through main, bin or an exports branch without a
\* module-format condition has the format of the auto-detection table
FormatAutoDetected ==
  \A t \in DOMAIN matrix :
     (matrix[t].call \in AutoDetectedCalls /\ matrix[t].outExt \in {".cjs", ".mjs", ".js"})
       => matrix[t].format = AutoDetected(matrix[t].outExt, manifest.type)

\* C15 witness: tasks are being built in which the extension decides against
\* the manifest type, and in which the manifest type decides
AutoDetectedDispatched ==
  /\ pc = "bundling"
  /\ \E t \in DOMAIN matrix :
        /\ matrix[t].call \in AutoDetectedCalls
        /\ \/ matrix[t].outExt = ".cjs" /\ manifest.type = "module"
           \/ matrix[t].outExt = ".mjs" /\ manifest.type = "commonjs"
  /\ \E t \in DOMAIN matrix :
        matrix[t].call \in AutoDetectedCalls /\ matrix[t].outExt = ".js"

FormatOf(outExt, byProperty) ==
  IF outExt = ".cjs" THEN "cjs" ELSE IF outExt = ".mjs" THEN "esm" ELSE byProperty

BinSources == UNION {CallSources(i) : i \in {j \in SourceCalls : tasks[j].isBinary}}

\* C17: once the tasks are dispatched the designated sources are the
\* sources matched by a bin declaration; the load hook gives a designated
\* source contents that start with '#!', prepending the node line exactly
\* when they did not, and alters no other file
HashbangInjected ==
  pc = "bundling" =>
    /\ {binaries[k] : k \in DOMAIN binaries} = BinSources
    /\ lastResolve.hook = "load" =>
         LET path == lastResolve.args.path
             contents == lastResolve.args.contents
             result == lastResolve.decision
         IN IF path \in BinSources
            THEN /\ result.kind = "loaded"
                 /\ StartsWithHashbang(result.contents)
                 /\ result.contents = IF StartsWithHashbang(contents) THEN contents
                                      ELSE <<NodeHashbang>> \o contents
            ELSE result.kind = "loaded" => result.contents = contents

\* ------------------------------------------------------------------------
\* Properties of the matches
\* ------------------------------------------------------------------------

\* C18: after expansion the matrix holds, for every declaration rooted
\* under outDir and every source file its pattern matches, a BuildTask that
\* writes the corresponding output file
EveryMatchBuilt ==
  pc = "bundling" =>
    \A i \in SourceCalls : \A o \in CallOutFiles(i) :
       \E t \in DOMAIN matrix : TaskOutFile(matrix[t]) = o

\* ------------------------------------------------------------------------
\* Properties of the formats of cross-task imports
\* ------------------------------------------------------------------------

\* C19: the path rewritten for an import-style task names an output file
\* that an import-style task of the matrix builds
RewrittenPathFormatCorrect ==
  (CrossTaskImport /\ matrix[lastResolve.task].format = "esm" /\ Rewritten) =>
    \E t \in DOMAIN matrix :
       /\ matrix[t].format = "esm"
       /\ TaskOutFile(matrix[t])
            = ResolveFrom(TaskOutFile(matrix[lastResolve.task]).dir, lastResolve.decision.path)

\* C20: in a require-style task a relative import that resolves to a
\* registered source file other than the task's entry point is external
\* and its path is not rewritten
CjsExternalUnrewritten ==
  (/\ lastResolve.hook = "relative"
   /\ matrix[lastResolve.task].format = "cjs"
   /\ lastResolve.args.resolved # NoFile
   /\ lastResolve.args.resolved \in DOMAIN exports
   /\ lastResolve.args.resolved # matrix[lastResolve.task].srcFile)
    => lastResolve.decision = External

\* C20 witness: a require-style task was answered for a registered file
\* that has no slot for the platform of the task
CjsImportAnswered ==
  /\ lastResolve.hook = "relative"
  /\ matrix[lastResolve.task].format = "cjs"
  /\ lastResolve.args.resolved \in DOMAIN exports
  /\ lastResolve.args.resolved # matrix[lastResolve.task].srcFile
  /\ ~HasSlot(exports, lastResolve.args.resolved, matrix[lastResolve.task].platform)
  /\ lastResolve.decision = External

\* ------------------------------------------------------------------------
\* Properties of the relative hook
\* ------------------------------------------------------------------------

\* C21: a relative import that resolves to the task's own entry point, or
\* to a file the registry does not hold, is left to the bundler (the hook
\* returns null) in every task; it is never marked external
OwnEntryOrUnregisteredBundled ==
  (/\ lastResolve.hook = "relative"
   /\ lastResolve.args.resolved # NoFile
   /\ \/ lastResolve.args.resolved = matrix[lastResolve.task].srcFile
      \/ lastResolve.args.resolved \notin DOMAIN exports)
    => lastResolve.decision = Null

\* C21 witness: an import-style task was answered for its own entry point,
\* which the registry holds under the platform of the task
OwnEntryImportAnswered ==
  /\ lastResolve.hook = "relative"
  /\ matrix[lastResolve.task].format = "esm"
  /\ lastResolve.args.resolved = matrix[lastResolve.task].srcFile
  /\ HasSlot(exports, lastResolve.args.resolved, matrix[lastResolve.task].platform)
  /\ lastResolve.decision = Null

\* C22: when the resolution of a specifier with a code extension fails, the
\* hook looks up the declaration source of the specifier; the import is
\* marked external only with the declaration-only slot of that source as
\* its path, and it is not marked external when the registry does not hold
\* the source
ReflectedToTypesSlot ==
  (/\ lastResolve.hook = "relative"
   /\ lastResolve.args.resolved = NoFile
   /\ lastResolve.args.path.ext \in JsExts) =>
    LET args == lastResolve.args
        reflected == File(JoinDirs(args.resolveDir, args.path.dir),
                          args.path.name \o ".d", TsOfJs(args.path.ext))
    IN /\ (lastResolve.decision.kind = "resolved" /\ lastResolve.decision.external) =>
            /\ HasSlot(exports, reflected, "types")
            /\ lastResolve.decision.path = exports[reflected]["types"]
            /\ lastResolve.decision.path # NoPath
       /\ reflected \notin DOMAIN exports => lastResolve.decision = Null

\* ------------------------------------------------------------------------
\* Properties of the package hook
\* ------------------------------------------------------------------------

\* C23: the package hook leaves an absolute path alone; otherwise a built-in
\* module name is external; otherwise a specifier whose package name is the
\* name of the manifest is external; in neither case does the hook throw,
\* whatever the dependency mappings declare
ClassifiedInRuleOrder ==
  lastResolve.hook = "package" =>
    LET args == lastResolve.args IN
      /\ args.abs => lastResolve.decision = Null
      /\ (~args.abs /\ args.segs \in BuiltinSpecifiers) => lastResolve.decision = External
      /\ (~args.abs /\ PackageName(args.segs) = manifest.name)
           => lastResolve.decision = External

\* C23 witness: a scoped package was answered for a subpath of itself,
\* which it declares under no dependency kind
ScopedSelfReferenceAnswered ==
  /\ lastResolve.hook = "package"
  /\ Len(manifest.name) = 2
  /\ Len(lastResolve.args.segs) = 3
  /\ PackageName(lastResolve.args.segs) = manifest.name
  /\ DeclaredTypes(manifest, manifest.name) = {}
  /\ lastResolve.decision = External

\* ------------------------------------------------------------------------
\* Properties of the passthrough patterns
\* ------------------------------------------------------------------------

\* C24: every BuildTask and every reserved output file comes from a pattern
\* rooted under outDir; once the expansion has ended, every file below cwd
\* that a pattern outside outDir matches outside rootDir is registered as
\* { default: file }; and addExport is called for 'package.json' exactly
\* when the manifest has no exports field
PassthroughRegistered ==
  /\ \A t \in DOMAIN matrix : matrix[t].call \in SourceCalls
  /\ outFiles \subseteq UNION {CallOutFiles(i) : i \in SourceCalls}
  /\ pc = "bundling" =>
       \A i \in DOMAIN tasks :
          (~IsEmptyPattern(tasks[i].pattern) /\ i \notin SourceCalls) =>
            \A t \in GlobMatches(Files, <<>>, StripDot(tasks[i].pattern),
                                 {tasks[i].pattern.ext}) :
               ~IsPrefixDir(tsconfig.rootDir, t.dir) =>
                 LET file == File(JoinDirs(Cwd, t.dir), t.name, t.ext)
                 IN /\ file \in DOMAIN exports
                    /\ exports[file] = ("default" :> file)
  /\ pc # "init" =>
       ((\E i \in DOMAIN tasks : tasks[i].pattern = Pat(<<>>, "package", ".json"))
          <=> manifest.exports = NoExports)

\* ------------------------------------------------------------------------
\* Properties of the registry
\* ------------------------------------------------------------------------

\* C25: when the tasks are dispatched, the registry slot of the source and
\* platform of every BuildTask that has a platform is the output file of
\* that task, and every platform slot of the registry is the output file of
\* a BuildTask of that source and platform
RegistryAgreesWithMatrix ==
  pc = "bundling" =>
    /\ \A t \in DOMAIN matrix :
          matrix[t].platform # NoPlatform =>
            /\ HasSlot(exports, matrix[t].srcFile, matrix[t].platform)
            /\ exports[matrix[t].srcFile][matrix[t].platform] = TaskOutFile(matrix[t])
    /\ \A f \in DOMAIN exports : \A slot \in DOMAIN exports[f] \cap {"node", "browser"} :
          \E t \in DOMAIN matrix :
             /\ matrix[t].srcFile = f
             /\ matrix[t].platform = slot
             /\ TaskOutFile(matrix[t]) = exports[f][slot]

\* C26: the relative hook never throws; whenever an import-style task
\* reaches the rewriting step (the resolved file is registered, is not the
\* entry of the task, and has a slot for the platform of the task or a
\* default slot), the registry holds a slot for the entry of the task under
\* the platform of the task
RelativeHookNeverThrows ==
  lastResolve.hook = "relative" =>
    LET task == matrix[lastResolve.task]
        path == lastResolve.args.resolved
    IN /\ lastResolve.decision # Thrown
       /\ (/\ task.format = "esm"
           /\ path \in DOMAIN exports
           /\ path # task.srcFile
           /\ \/ HasSlot(exports, path, task.platform)
              \/ HasSlot(exports, path, "default"))
            => HasSlot(exports, task.srcFile, task.platform)

\* ------------------------------------------------------------------------
\* Properties of the condition overrides
\* ------------------------------------------------------------------------

\* for every leaf of an exports value, in the order addConditionalExport
\* visits them: the keys on the way from the root to the leaf, and the
\* segments of the subpath keys among them
RECURSIVE LeafPaths(_, _, _)
RECURSIVE LeafPathsKeys(_, _, _, _)
LeafPaths(pattern, keys, segs) ==
  IF pattern.kind = "leaf" THEN <<[keys |-> keys, segs |-> segs]>>
  ELSE IF pattern.kind = "map" THEN LeafPathsKeys(pattern, keys, segs, 1)
  ELSE <<>>

LeafPathsKeys(pattern, keys, segs, i) ==
  IF i > Len(pattern.keys) THEN <<>>
  ELSE LeafPaths(pattern.vals[i], Append(keys, pattern.keys[i]),
                 IF pattern.keys[i].sub THEN segs \o pattern.keys[i].segs ELSE segs)
       \o LeafPathsKeys(pattern, keys, segs, i + 1)

\* C27: the format, platform and prefix of every addExport call are those
\* of the manifest default overridden by the keys on the call's own path
\* only (the last format condition, the last platform or declaration
\* condition, the subpath keys joined), main, module, package.json and bin
\* taking the default; and the format and platform of every BuildTask are
\* those of its call, the format overridden by the extension '.cjs' or
\* '.mjs' of its own output
OverridesLocalToBranch ==
  pc # "init" /\ tasks # <<>> =>
    LET default == [platform |-> "node",
                    format |-> IF manifest.type = "module" THEN "esm" ELSE "cjs"]
        paths == LeafPaths(manifest.exports, <<>>, <<>>)
        last(keys, names) ==
          LET I == {i \in DOMAIN keys : ~keys[i].sub /\ keys[i].name \in names}
          IN IF I = {} THEN 0 ELSE CHOOSE i \in I : \A j \in I : j <= i
        own(path) ==
          LET f == last(path.keys, {"require", "import"})
              p == last(path.keys, {"browser", "node", "types", "typings"})
          IN [format |-> IF f = 0 THEN default.format
                         ELSE IF path.keys[f].name = "require" THEN "cjs" ELSE "esm",
              platform |-> IF p = 0 THEN default.platform
                           ELSE IF path.keys[p].name \in {"types", "typings"} THEN NoPlatform
                           ELSE path.keys[p].name,
              prefix |-> IF \A i \in DOMAIN path.keys : ~path.keys[i].sub THEN <<>>
                         ELSE IF Normalize(path.segs) = <<>> THEN <<".">>
                         ELSE Normalize(path.segs)]
    IN /\ tasks[1].preset = default /\ tasks[1].prefix = <<>>
       /\ tasks[2].preset = [default EXCEPT !.format = "esm"] /\ tasks[2].prefix = <<>>
       /\ \A k \in DOMAIN paths :
             /\ tasks[2 + k].preset.format = own(paths[k]).format
             /\ tasks[2 + k].preset.platform = own(paths[k]).platform
             /\ tasks[2 + k].prefix = own(paths[k]).prefix
       /\ \A i \in DOMAIN tasks :
             i > 2 + Len(paths) => tasks[i].preset = default /\ tasks[i].prefix = NullPrefix
       /\ \A t \in DOMAIN matrix :
             /\ matrix[t].platform = tasks[matrix[t].call].preset.platform
             /\ matrix[t].format =
                  IF matrix[t].outExt = ".cjs" THEN "cjs"
                  ELSE IF matrix[t].outExt = ".mjs" THEN "esm"
                  ELSE tasks[matrix[t].call].preset.format

\* C27 witness: the tasks of a manifest are being built in which a branch
\* below a 'browser' condition is followed by a sibling branch, and the
\* matrix holds a browser task next to a node task of a later call
SiblingAfterOverrideDispatched ==
  /\ pc = "bundling"
  /\ \E t, u \in DOMAIN matrix :
        /\ matrix[t].platform = "browser"
        /\ matrix[u].platform = "node"
        /\ matrix[t].call < matrix[u].call
        /\ matrix[u].call \in ExportsCalls

\* ------------------------------------------------------------------------
\* Properties of the configuration
\* ------------------------------------------------------------------------

\* C28: with neither noEmit nor emitDeclarationOnly set, the run makes no
\* addExport call, starts no glob, adds no BuildTask, writes nothing to the
\* registry and hands nothing to esbuild
NothingBuiltWithoutEmitOption ==
  (~tsconfig.noEmit /\ ~tsconfig.emitDeclarationOnly) =>
    /\ pc \in {"init", "done"}
    /\ tasks = <<>>
    /\ DOMAIN resolveCache = {}
    /\ matrix = <<>>
    /\ exports = EmptyRegistry
    /\ outFiles = {}
    /\ binaries = <<>>
    /\ status = <<>>

\* C28 witness: the run of a manifest that declares main and a mapping of
\* exports has ended under a configuration that sets neither option
EndedWithoutEmitOption ==
  /\ pc = "done"
  /\ ~tsconfig.noEmit /\ ~tsconfig.emitDeclarationOnly
  /\ ~IsEmptyPattern(manifest.main)
  /\ manifest.exports.kind = "map"

====
